---- MODULE Spec2Model ----
(***************************************************************************)
(* State-machine model of the GruenderAI assessment backend:               *)
(*   src/main.py                 the four request handlers and the store   *)
(*   src/assessment/engine.py    AssessmentEngine (delivery and scoring)   *)
(*   src/assessment/questions.py the question bank                         *)
(*                                                                         *)
(* Numbers with one decimal (dimension scores, overall_score) are kept as  *)
(* integer tenths: 66.7 is 667.  Weights are kept as integer hundredths.   *)
(* Timestamps, user_id, language and the never-written "scores" entry of a *)
(* session are not modelled: no handler reads them back into a decision.   *)
(*                                                                         *)
(* sessions    the module-level dict of main.py                            *)
(* resp        the response to the last request handled                    *)
(* roundTieUp  the direction Python's round takes at an exact decimal tie  *)
(* requests    the /answer requests received by the event loop, each with  *)
(*             the position of its handler coroutine (used by ConcSpec)    *)
(***************************************************************************)
EXTENDS Integers, Sequences, FiniteSets, TLC

VARIABLES sessions, resp, roundTieUp, requests

vars == <<sessions, resp, roundTieUp, requests>>

(***************************************************************************)
(* Bounds of the model.                                                    *)
(***************************************************************************)
\* current_question_index is unbounded in the code; submissions stop here.
MaxPointer == 16

\* number of /answer requests the concurrent clients issue
MaxRequests == 3

(***************************************************************************)
(* Answer values.  SubmitAnswerRequest.answer is typed Any; the model      *)
(* distinguishes Python ints and Python strs.                              *)
(***************************************************************************)
IntAns(n) == [t |-> "int", i |-> n, s |-> ""]
StrAns(x) == [t |-> "str", i |-> 0, s |-> x]

(***************************************************************************)
(* questions.py                                                            *)
(***************************************************************************)
DIMENSIONS ==
  << "Unternehmerische Persönlichkeit",
     "Fachkompetenz",
     "Marktverständnis",
     "Finanzplanung",
     "Umsetzungsreife" >>

\* The question bank, in bank order.  A likert question has no "scoring" key.
get_question_bank ==
  << [id |-> "ENT_001", dimension |-> "Unternehmerische Persönlichkeit", type |-> "likert"],
     [id |-> "ENT_002", dimension |-> "Unternehmerische Persönlichkeit", type |-> "likert"],
     [id |-> "ENT_003", dimension |-> "Unternehmerische Persönlichkeit", type |-> "likert"],
     [id |-> "COMP_001", dimension |-> "Fachkompetenz", type |-> "multiple_choice",
      scoring |-> ("no_experience" :> 1 @@ "less_1_year" :> 2 @@ "1_3_years" :> 3
                   @@ "3_5_years" :> 4 @@ "more_5_years" :> 5)],
     [id |-> "COMP_002", dimension |-> "Fachkompetenz", type |-> "yes_no",
      scoring |-> ("yes" :> 5 @@ "no" :> 1)],
     [id |-> "COMP_003", dimension |-> "Fachkompetenz", type |-> "likert"],
     [id |-> "MARKET_001", dimension |-> "Marktverständnis", type |-> "yes_no",
      scoring |-> ("yes" :> 5 @@ "partial" :> 3 @@ "no" :> 1)],
     [id |-> "MARKET_002", dimension |-> "Marktverständnis", type |-> "yes_no",
      scoring |-> ("yes" :> 5 @@ "partial" :> 3 @@ "no" :> 1)],
     [id |-> "MARKET_003", dimension |-> "Marktverständnis", type |-> "likert"],
     [id |-> "FIN_001", dimension |-> "Finanzplanung", type |-> "yes_no",
      scoring |-> ("yes" :> 5 @@ "partial" :> 3 @@ "no" :> 1)],
     [id |-> "FIN_002", dimension |-> "Finanzplanung", type |-> "multiple_choice",
      scoring |-> ("unclear" :> 1 @@ "under_10k" :> 4 @@ "10_30k" :> 5
                   @@ "30_50k" :> 4 @@ "over_50k" :> 3)],
     [id |-> "FIN_003", dimension |-> "Finanzplanung", type |-> "likert"],
     [id |-> "IMPL_001", dimension |-> "Umsetzungsreife", type |-> "multiple_choice",
      scoring |-> ("idea" :> 2 @@ "concept" :> 3 @@ "planning" :> 4 @@ "ready" :> 5)],
     [id |-> "IMPL_002", dimension |-> "Umsetzungsreife", type |-> "yes_no",
      scoring |-> ("yes" :> 5 @@ "some" :> 3 @@ "no" :> 1)],
     [id |-> "IMPL_003", dimension |-> "Umsetzungsreife", type |-> "likert"] >>

\* AssessmentEngine.__init__
question_bank == get_question_bank
total_questions == Len(question_bank)

(***************************************************************************)
(* Python helpers                                                          *)
(***************************************************************************)
\* Optional[...] None
None == [is_none |-> TRUE]

\* dict.get(key, default)
DictGet(d, key, default) == IF key \in DOMAIN d THEN d[key] ELSE default

\* int(x) of a non-negative float num/den: truncation.  The handlers compute
\* int((index / total) * 100) in doubles; the double result truncates to the
\* same integer as the exact quotient for every index in 0..68 (the first
\* index where they differ is 69), which covers every index the model reaches.
IntTrunc(num, den) == num \div den

(***************************************************************************)
(* AssessmentEngine.get_next_question                                      *)
(***************************************************************************)
\* get_next_question numbering the questions from 0
get_next_question_order_from0(session_data) ==
  LET current_index == session_data.current_question_index
  IN  IF current_index >= total_questions
      THEN None
      ELSE LET question == question_bank[current_index + 1]
           IN  [question_id   |-> question.id,
                question_type |-> question.type,
                dimension     |-> question.dimension,
                order         |-> current_index,
                total         |-> total_questions]

get_next_question(session_data) ==
  LET current_index == session_data.current_question_index
  IN  IF current_index >= total_questions
      THEN None
      ELSE LET question == question_bank[current_index + 1]
           IN  [question_id   |-> question.id,
                question_type |-> question.type,
                dimension     |-> question.dimension,
                order         |-> current_index + 1,
                total         |-> total_questions]

\* Progress with the percentage clamped to 100
ProgressClamped(session_data) ==
  LET percent == IntTrunc(session_data.current_question_index * 100, total_questions)
  IN  IF percent > 100 THEN 100 ELSE percent

\* progress = int((current_question_index / total_questions) * 100)
Progress(session_data) ==
  IntTrunc(session_data.current_question_index * 100, total_questions)

(***************************************************************************)
(* Python conversions used by the scoring code.  A conversion either       *)
(* returns a value or raises.                                              *)
(***************************************************************************)
Returns(v) == [ok |-> TRUE, v |-> v]
Raises == [ok |-> FALSE, v |-> 0]

\* float(answer): an int converts to its value; a str converts only if it is
\* a numeric literal, and none of the strs the model submits is one, so
\* float raises ValueError on them.
PyFloat(answer) == IF answer.t = "int" THEN Returns(answer.i) ELSE Raises

\* str(answer): a str is itself, an int its decimal representation.
PyStr(answer) == IF answer.t = "str" THEN answer.s ELSE ToString(answer.i)

\* answer.lower(): int has no attribute lower (AttributeError).  Of the strs
\* the model submits only "YES" and "NO" contain upper-case letters.
PyLower(answer) ==
  IF answer.t = "str"
  THEN Returns(CASE answer.s = "YES" -> "yes"
                 [] answer.s = "NO"  -> "no"
                 [] OTHER            -> answer.s)
  ELSE Raises

\* round(num/den, 0) of a quotient of integers, den > 0: the nearest integer.
\* At an exact tie the double that Python rounds lies just above or just
\* below the decimal tie, depending on the representation error of the
\* operands; tieUp is the direction it falls.
RoundNearest(num, den, tieUp) ==
  LET q == num \div den
      r == num % den
  IN  IF 2 * r > den THEN q + 1
      ELSE IF 2 * r < den THEN q
      ELSE IF tieUp THEN q + 1 ELSE q

(***************************************************************************)
(* AssessmentEngine._score_answer: the score, or the exception raised.     *)
(***************************************************************************)
_score_answer(question, answer) ==
  LET question_type == question.type
  IN  IF question_type = "likert"
      THEN PyFloat(answer)
      ELSE IF question_type = "multiple_choice"
      THEN LET scoring == DictGet(question, "scoring", << >>)
           IN  Returns(DictGet(scoring, PyStr(answer), 0))
      ELSE IF question_type = "yes_no"
      THEN LET scoring == DictGet(question, "scoring", ("yes" :> 5 @@ "no" :> 0))
               lowered == PyLower(answer)
           IN  IF lowered.ok THEN Returns(DictGet(scoring, lowered.v, 0)) ELSE Raises
      ELSE IF question_type = "text"
      THEN Returns(IF PyStr(answer) # "" THEN 3 ELSE 0)
      ELSE Returns(0)

(***************************************************************************)
(* AssessmentEngine._get_level: score is the average raw_score / count.    *)
(***************************************************************************)
_get_level(raw_score, count) ==
  IF raw_score >= 4 * count THEN "Hoch"
  ELSE IF 2 * raw_score >= 5 * count THEN "Mittel"
  ELSE "Niedrig"

(***************************************************************************)
(* AssessmentEngine._get_interpretation                                    *)
(***************************************************************************)
interpretations ==
  ( "Unternehmerische Persönlichkeit" :>
      [Hoch    |-> "Sie zeigen ausgeprägte unternehmerische Eigenschaften wie Risikobereitschaft und Proaktivität.",
       Mittel  |-> "Ihre unternehmerischen Eigenschaften sind gut entwickelt, können aber noch gestärkt werden.",
       Niedrig |-> "Es empfiehlt sich, an unternehmerischen Kompetenzen zu arbeiten."]
 @@ "Fachkompetenz" :>
      [Hoch    |-> "Sie verfügen über starke fachliche Qualifikationen für Ihre Gründung.",
       Mittel  |-> "Ihre fachlichen Kompetenzen sind solide, spezifische Weiterbildung könnte hilfreich sein.",
       Niedrig |-> "Fachliche Weiterbildung wird empfohlen, um Ihre Erfolgschancen zu erhöhen."]
 @@ "Marktverständnis" :>
      [Hoch    |-> "Sie haben ein klares Verständnis Ihres Zielmarktes und Ihrer Kunden.",
       Mittel  |-> "Ihr Marktverständnis ist vorhanden, vertiefte Marktforschung wäre vorteilhaft.",
       Niedrig |-> "Intensivere Auseinandersetzung mit dem Markt ist wichtig für Ihren Erfolg."]
 @@ "Finanzplanung" :>
      [Hoch    |-> "Ihre Finanzplanung ist durchdacht und realistisch.",
       Mittel  |-> "Grundlegende Finanzplanung vorhanden, Details sollten verfeinert werden.",
       Niedrig |-> "Professionelle Unterstützung bei der Finanzplanung wird dringend empfohlen."]
 @@ "Umsetzungsreife" :>
      [Hoch    |-> "Sie sind gut vorbereitet und können mit der Umsetzung beginnen.",
       Mittel  |-> "Einige Vorbereitungen sind noch zu treffen, bevor Sie starten können.",
       Niedrig |-> "Erhebliche Vorarbeit ist noch erforderlich für einen erfolgreichen Start."] )

_get_interpretation(dimension, raw_score, count) ==
  LET level == _get_level(raw_score, count)
  IN  DictGet(DictGet(interpretations, dimension, << >>), level, "")

(***************************************************************************)
(* AssessmentEngine._calculate_overall_score                               *)
(***************************************************************************)
\* the weights 0.20, 0.25, 0.25, 0.20, 0.10 in hundredths
weights ==
  ( "Unternehmerische Persönlichkeit" :> 20
 @@ "Fachkompetenz" :> 25
 @@ "Marktverständnis" :> 25
 @@ "Finanzplanung" :> 20
 @@ "Umsetzungsreife" :> 10 )

\* the loop over dimensions.items(), which iterates in DIMENSIONS order;
\* acc is (weighted_sum, total_weight)
RECURSIVE WeightedLoop(_, _, _)
WeightedLoop(k, dimensions, acc) ==
  IF k > Len(DIMENSIONS) THEN acc
  ELSE LET dim == DIMENSIONS[k]
       IN  IF dim \in DOMAIN dimensions /\ dim \in DOMAIN weights
           THEN WeightedLoop(k + 1, dimensions,
                  [weighted_sum |-> acc.weighted_sum + dimensions[dim].score * weights[dim],
                   total_weight |-> acc.total_weight + weights[dim]])
           ELSE WeightedLoop(k + 1, dimensions, acc)

_calculate_overall_score(dimensions, tieUp) ==
  LET acc == WeightedLoop(1, dimensions, [weighted_sum |-> 0, total_weight |-> 0])
  IN  IF acc.total_weight > 0
      THEN RoundNearest(acc.weighted_sum, acc.total_weight, tieUp)
      ELSE 0

(***************************************************************************)
(* AssessmentEngine._get_readiness_level.  The labels are sequences of     *)
(* characters because _generate_next_steps searches them for a substring.  *)
(***************************************************************************)
\* "Hoch - Sehr gute Bewilligungschancen"
ReadinessHoch ==
  << "H", "o", "c", "h", " ", "-", " ", "S", "e", "h", "r", " ", "g", "u",
     "t", "e", " ", "B", "e", "w", "i", "l", "l", "i", "g", "u", "n", "g",
     "s", "c", "h", "a", "n", "c", "e", "n" >>

\* "Mittel - Gute Chancen mit Optimierungen"
ReadinessMittel ==
  << "M", "i", "t", "t", "e", "l", " ", "-", " ", "G", "u", "t", "e", " ",
     "C", "h", "a", "n", "c", "e", "n", " ", "m", "i", "t", " ", "O", "p",
     "t", "i", "m", "i", "e", "r", "u", "n", "g", "e", "n" >>

\* "Ausbaufähig - Verbesserungen erforderlich"
ReadinessAusbaufaehig ==
  << "A", "u", "s", "b", "a", "u", "f", "ä", "h", "i", "g", " ", "-", " ",
     "V", "e", "r", "b", "e", "s", "s", "e", "r", "u", "n", "g", "e", "n",
     " ", "e", "r", "f", "o", "r", "d", "e", "r", "l", "i", "c", "h" >>

\* "Niedrig - Erhebliche Vorbereitung notwendig"
ReadinessNiedrig ==
  << "N", "i", "e", "d", "r", "i", "g", " ", "-", " ", "E", "r", "h", "e",
     "b", "l", "i", "c", "h", "e", " ", "V", "o", "r", "b", "e", "r", "e",
     "i", "t", "u", "n", "g", " ", "n", "o", "t", "w", "e", "n", "d", "i",
     "g" >>

\* _get_readiness_level with the top tier starting at 70
_get_readiness_level_from70(overall_score) ==
  IF overall_score >= 700 THEN ReadinessHoch
  ELSE IF overall_score >= 550 THEN ReadinessMittel
  ELSE IF overall_score >= 350 THEN ReadinessAusbaufaehig
  ELSE ReadinessNiedrig

\* overall_score is in tenths: 75, 55 and 35 are 750, 550 and 350
_get_readiness_level(overall_score) ==
  IF overall_score >= 750 THEN ReadinessHoch
  ELSE IF overall_score >= 550 THEN ReadinessMittel
  ELSE IF overall_score >= 350 THEN ReadinessAusbaufaehig
  ELSE ReadinessNiedrig

\* Python's  sub in text  on strs
PyIn(sub, text) ==
  \E k \in 1..(Len(text) - Len(sub) + 1) : SubSeq(text, k, k + Len(sub) - 1) = sub

(***************************************************************************)
(* AssessmentEngine._generate_recommendations                              *)
(***************************************************************************)
RecExcellent == "Ihre Vorbereitung ist ausgezeichnet. Fokussieren Sie jetzt auf die formale Antragstellung."
RecFinanzplanung == "Erstellen Sie eine detaillierte 3-Jahres-Finanzplanung mit realistischen Annahmen."
RecMarkt == "Führen Sie eine gründliche Markt- und Wettbewerbsanalyse durch."
RecFachkompetenz == "Dokumentieren Sie Ihre fachlichen Qualifikationen und Branchenerfahrung detailliert."
RecUmsetzungsreife == "Entwickeln Sie einen konkreten Zeitplan für Ihre ersten 6 Monate."
RecGeneral == "Nutzen Sie die Gründungszuschuss-Beratung Ihrer Agentur für Arbeit."

\* recommendations.append(text) if cond
AppendIf(cond, recommendations, text) ==
  IF cond THEN Append(recommendations, text) ELSE recommendations

\* list[:n]
Take(list, n) == SubSeq(list, 1, IF Len(list) < n THEN Len(list) ELSE n)

\* _generate_recommendations calling a dimension weak below 80
_generate_recommendations_weak_below80(dimensions, overall_score) ==
  LET weak_dimensions == {dim \in DOMAIN dimensions : dimensions[dim].score < 800}
      r0 == AppendIf(overall_score >= 750, << >>, RecExcellent)
      r1 == AppendIf("Finanzplanung" \in weak_dimensions, r0, RecFinanzplanung)
      r2 == AppendIf("Marktverständnis" \in weak_dimensions, r1, RecMarkt)
      r3 == AppendIf("Fachkompetenz" \in weak_dimensions, r2, RecFachkompetenz)
      r4 == AppendIf("Umsetzungsreife" \in weak_dimensions, r3, RecUmsetzungsreife)
      recommendations == Append(r4, RecGeneral)
  IN  Take(recommendations, 5)

\* _generate_recommendations returning the list without the [:5] slice
_generate_recommendations_unsliced(dimensions, overall_score) ==
  LET weak_dimensions == {dim \in DOMAIN dimensions : dimensions[dim].score < 600}
      r0 == AppendIf(overall_score >= 750, << >>, RecExcellent)
      r1 == AppendIf("Finanzplanung" \in weak_dimensions, r0, RecFinanzplanung)
      r2 == AppendIf("Marktverständnis" \in weak_dimensions, r1, RecMarkt)
      r3 == AppendIf("Fachkompetenz" \in weak_dimensions, r2, RecFachkompetenz)
      r4 == AppendIf("Umsetzungsreife" \in weak_dimensions, r3, RecUmsetzungsreife)
  IN  Append(r4, RecGeneral)

_generate_recommendations(dimensions, overall_score) ==
  LET weak_dimensions == {dim \in DOMAIN dimensions : dimensions[dim].score < 600}
      r0 == AppendIf(overall_score >= 750, << >>, RecExcellent)
      r1 == AppendIf("Finanzplanung" \in weak_dimensions, r0, RecFinanzplanung)
      r2 == AppendIf("Marktverständnis" \in weak_dimensions, r1, RecMarkt)
      r3 == AppendIf("Fachkompetenz" \in weak_dimensions, r2, RecFachkompetenz)
      r4 == AppendIf("Umsetzungsreife" \in weak_dimensions, r3, RecUmsetzungsreife)
      recommendations == Append(r4, RecGeneral)
  IN  Take(recommendations, 5)

(***************************************************************************)
(* AssessmentEngine._generate_next_steps                                   *)
(***************************************************************************)
StepsHoch ==
  << "Terminvereinbarung mit Ihrer Agentur für Arbeit",
     "Businessplan finalisieren und formatieren",
     "Stellungnahme einer fachkundigen Stelle einholen",
     "Alle erforderlichen Unterlagen zusammenstellen",
     "Antrag einreichen" >>

StepsMittel ==
  << "Schwachstellen in Ihrem Konzept identifizieren und beheben",
     "Businessplan von Experten prüfen lassen",
     "Fehlende Qualifikationen nachweisen oder aufbauen",
     "Finanzplanung mit einem Berater durchgehen",
     "Dann Antrag bei der Agentur für Arbeit stellen" >>

StepsElse ==
  << "Gründungsberatung in Anspruch nehmen",
     "Businessplan-Workshop oder -Kurs besuchen",
     "Geschäftsidee schärfen und validieren",
     "Fachliche Kompetenzen gezielt ausbauen",
     "Assessment nach Vorbereitung wiederholen" >>

_generate_next_steps(readiness_level, dimensions) ==
  IF PyIn(<<"H", "o", "c", "h">>, readiness_level) THEN StepsHoch
  ELSE IF PyIn(<<"M", "i", "t", "t", "e", "l">>, readiness_level) THEN StepsMittel
  ELSE StepsElse

(***************************************************************************)
(* AssessmentEngine.calculate_results                                      *)
(***************************************************************************)
\* the loop over the question bank; it stops at the first answer whose
\* scoring raises
RECURSIVE ScoreLoop(_, _, _)
ScoreLoop(k, answers, dimension_scores) ==
  IF k > total_questions THEN [ok |-> TRUE, dimension_scores |-> dimension_scores]
  ELSE LET question == question_bank[k]
           question_id == question.id
       IN  IF question_id \in DOMAIN answers
           THEN LET dimension == question.dimension
                    score == _score_answer(question, answers[question_id].answer)
                IN  IF score.ok
                    THEN ScoreLoop(k + 1, answers,
                           [dimension_scores EXCEPT ![dimension] =
                              [raw_score |-> @.raw_score + score.v, count |-> @.count + 1]])
                    ELSE [ok |-> FALSE, dimension_scores |-> dimension_scores]
           ELSE ScoreLoop(k + 1, answers, dimension_scores)

\* dimension_scores after the loop, or the exception
DimensionScores(answers) ==
  ScoreLoop(1, answers,
            [dim \in {DIMENSIONS[k] : k \in 1..Len(DIMENSIONS)} |-> [raw_score |-> 0, count |-> 0]])

\* round(avg_score * 20, 1) in tenths, avg_score = raw_score / count
NormalizedScore(raw_score, count, tieUp) == RoundNearest(raw_score * 200, count, tieUp)

NormalizedDimensions(dimension_scores, tieUp) ==
  [dim \in {d \in DOMAIN dimension_scores : dimension_scores[d].count > 0} |->
     LET data == dimension_scores[dim]
     IN  [score |-> NormalizedScore(data.raw_score, data.count, tieUp),
          level |-> _get_level(data.raw_score, data.count),
          interpretation |-> _get_interpretation(dim, data.raw_score, data.count)]]

\* calculate_results scoring the answers of completed sessions only
calculate_results_when_complete(session_data, tieUp) ==
  LET answers == IF session_data.current_question_index >= total_questions
                 THEN session_data.answers ELSE << >>
      scored == DimensionScores(answers)
  IN  IF ~scored.ok THEN [ok |-> FALSE]
      ELSE LET normalized_dimensions == NormalizedDimensions(scored.dimension_scores, tieUp)
               overall_score == _calculate_overall_score(normalized_dimensions, tieUp)
               readiness_level == _get_readiness_level(overall_score)
           IN  [ok |-> TRUE,
                overall_score |-> overall_score,
                readiness_level |-> readiness_level,
                dimensions |-> normalized_dimensions,
                recommendations |-> _generate_recommendations(normalized_dimensions, overall_score),
                next_steps |-> _generate_next_steps(readiness_level, normalized_dimensions)]

calculate_results(session_data, tieUp) ==
  LET scored == DimensionScores(session_data.answers)
  IN  IF ~scored.ok THEN [ok |-> FALSE]
      ELSE LET normalized_dimensions == NormalizedDimensions(scored.dimension_scores, tieUp)
               overall_score == _calculate_overall_score(normalized_dimensions, tieUp)
               readiness_level == _get_readiness_level(overall_score)
           IN  [ok |-> TRUE,
                overall_score |-> overall_score,
                readiness_level |-> readiness_level,
                dimensions |-> normalized_dimensions,
                recommendations |-> _generate_recommendations(normalized_dimensions, overall_score),
                next_steps |-> _generate_next_steps(readiness_level, normalized_dimensions)]

(***************************************************************************)
(* Inputs of the requests                                                  *)
(***************************************************************************)
\* Session ids str(uuid.uuid4()) can take; start draws one not yet in use.
SessionIds == {"s1", "s2"}

\* Session ids a client may send: the above and one that is never created.
RequestIds == SessionIds \cup {"s0"}

\* (question_id, answer) pairs sent to /answer: a bank question with a valid
\* likert value and with one out of range, and an id that is not in the bank.
SubmitInputs ==
  { <<"ENT_001", IntAns(3)>>, <<"ENT_001", IntAns(7)>>, <<"XXX_999", IntAns(3)>> }

(***************************************************************************)
(* State after module import: no sessions (main.py: sessions = {}).        *)
(***************************************************************************)
NoResponse == [op |-> "none"]

\* HTTPException(status_code=404, detail="Session not found")
NotFound(op, session_id) ==
  [op |-> op, session_id |-> session_id, status |-> 404, detail |-> "Session not found"]

Init ==
  /\ sessions = << >>
  /\ resp = NoResponse
  /\ roundTieUp \in BOOLEAN
  /\ requests = << >>

(***************************************************************************)
(* POST /api/assessment/start                                              *)
(***************************************************************************)
\* start_assessment rebinding the store to a dict holding the new session only
start_assessment_fresh_store(session_id) ==
  LET session_data == [current_question_index |-> 0, answers |-> << >>]
  IN  /\ session_id \notin DOMAIN sessions
      /\ sessions' = (session_id :> session_data)
      /\ resp' = [op |-> "start", session_id |-> session_id, status |-> 200,
                  total_questions |-> total_questions,
                  first_question |-> get_next_question(session_data)]
      /\ UNCHANGED roundTieUp

start_assessment(session_id) ==
  LET session_data == [current_question_index |-> 0, answers |-> << >>]
  IN  /\ session_id \notin DOMAIN sessions
      /\ sessions' = (session_id :> session_data) @@ sessions
      /\ resp' = [op |-> "start", session_id |-> session_id, status |-> 200,
                  total_questions |-> total_questions,
                  first_question |-> get_next_question(session_data)]
      /\ UNCHANGED roundTieUp

(***************************************************************************)
(* POST /api/assessment/answer                                             *)
(***************************************************************************)
\* StoreAnswer advancing the pointer only for a question_id not yet answered
StoreAnswerAdvanceIfNew(session_data, question_id, answer) ==
  [current_question_index |->
     IF question_id \in DOMAIN session_data.answers
     THEN session_data.current_question_index
     ELSE session_data.current_question_index + 1,
   answers |-> (question_id :> [answer |-> answer]) @@ session_data.answers]

\* the session after "Store answer" and "Update progress"
StoreAnswer(session_data, question_id, answer) ==
  [current_question_index |-> session_data.current_question_index + 1,
   answers |-> (question_id :> [answer |-> answer]) @@ session_data.answers]

\* submit_answer creating the session when the id is unknown
submit_answer_autocreate(session_id, question_id, answer) ==
  LET known == IF session_id \in DOMAIN sessions THEN sessions[session_id]
               ELSE [current_question_index |-> 0, answers |-> << >>]
      session_data == StoreAnswer(known, question_id, answer)
      is_complete == session_data.current_question_index >= total_questions
  IN  /\ known.current_question_index < MaxPointer
      /\ sessions' = (session_id :> session_data) @@ sessions
      /\ resp' = [op |-> "answer", session_id |-> session_id, status |-> 200,
                  next_question |-> IF is_complete THEN None
                                    ELSE get_next_question(session_data),
                  progress |-> Progress(session_data),
                  is_complete |-> is_complete]
      /\ UNCHANGED roundTieUp

submit_answer(session_id, question_id, answer) ==
  IF session_id \notin DOMAIN sessions
  THEN /\ resp' = NotFound("answer", session_id)
       /\ UNCHANGED <<sessions, roundTieUp>>
  ELSE LET session_data == StoreAnswer(sessions[session_id], question_id, answer)
           is_complete == session_data.current_question_index >= total_questions
       IN  /\ sessions[session_id].current_question_index < MaxPointer
           /\ sessions' = [sessions EXCEPT ![session_id] = session_data]
           /\ resp' = [op |-> "answer", session_id |-> session_id, status |-> 200,
                       next_question |-> IF is_complete THEN None
                                         ELSE get_next_question(session_data),
                       progress |-> Progress(session_data),
                       is_complete |-> is_complete]
           /\ UNCHANGED roundTieUp

(***************************************************************************)
(* GET /api/assessment/session/{session_id}                                *)
(***************************************************************************)
get_session_info(session_id) ==
  /\ resp' = IF session_id \notin DOMAIN sessions
             THEN NotFound("session", session_id)
             ELSE [op |-> "session", session_id |-> session_id, status |-> 200,
                   progress |-> Progress(sessions[session_id]),
                   answers_count |-> Cardinality(DOMAIN sessions[session_id].answers)]
  /\ UNCHANGED <<sessions, roundTieUp>>

(***************************************************************************)
(* POST /api/assessment/results                                            *)
(***************************************************************************)
get_results(session_id) ==
  /\ resp' = IF session_id \notin DOMAIN sessions
             THEN NotFound("results", session_id)
             ELSE LET results == calculate_results(sessions[session_id], roundTieUp)
                  IN  IF ~results.ok
                      THEN [op |-> "results", session_id |-> session_id, status |-> 500,
                            detail |-> "Failed to calculate results"]
                      ELSE [op |-> "results", session_id |-> session_id, status |-> 200,
                            overall_score |-> results.overall_score,
                            readiness_level |-> results.readiness_level,
                            dimensions |-> results.dimensions,
                            recommendations |-> results.recommendations,
                            next_steps |-> results.next_steps]
  /\ UNCHANGED <<sessions, roundTieUp>>

(***************************************************************************)
(* The requests the clients of the protocol model send.                    *)
(***************************************************************************)
StartAssessment ==
  /\ \E session_id \in SessionIds : start_assessment(session_id)
  /\ UNCHANGED requests

SubmitAnswer ==
  /\ \E session_id \in RequestIds, input \in SubmitInputs :
       submit_answer(session_id, input[1], input[2])
  /\ UNCHANGED requests

GetSessionInfo ==
  /\ \E session_id \in RequestIds : get_session_info(session_id)
  /\ UNCHANGED requests

GetResults ==
  /\ \E session_id \in RequestIds : get_results(session_id)
  /\ UNCHANGED requests

Next == StartAssessment \/ SubmitAnswer \/ GetResults \/ GetSessionInfo

Spec == Init /\ [][Next]_vars

(***************************************************************************)
(* The scoring model: one client answers questions of all five dimensions, *)
(* each question at most once and in any order, and asks for the results   *)
(* at any time.                                                            *)
(***************************************************************************)
\* (question_id, answer) pairs sent to /answer: valid values, likert values
\* out of 1..5, a str for a likert question, an int for a yes_no question,
\* an upper-case "YES", an int for a multiple_choice question, and an id
\* that is not in the bank.
ScoreInputs ==
  { <<"ENT_001", IntAns(1)>>, <<"ENT_001", IntAns(4)>>, <<"ENT_001", IntAns(20)>>,
    <<"ENT_001", StrAns("yes")>>,
    <<"ENT_002", IntAns(2)>>, <<"ENT_002", IntAns(5)>>,
    <<"ENT_003", IntAns(2)>>, <<"ENT_003", IntAns(5)>>,
    <<"COMP_002", StrAns("no")>>, <<"COMP_002", StrAns("YES")>>, <<"COMP_002", IntAns(1)>>,
    <<"MARKET_003", IntAns(1)>>, <<"MARKET_003", IntAns(5)>>,
    <<"FIN_002", StrAns("unclear")>>, <<"FIN_002", StrAns("10_30k")>>, <<"FIN_002", IntAns(3)>>,
    <<"IMPL_003", IntAns(1)>>, <<"IMPL_003", IntAns(5)>>,
    <<"XXX_999", IntAns(5)>> }

ScoreStart == start_assessment("s1") /\ UNCHANGED requests

ScoreSubmit ==
  /\ \E input \in ScoreInputs :
       /\ "s1" \in DOMAIN sessions
       /\ input[1] \notin DOMAIN sessions["s1"].answers
       /\ submit_answer("s1", input[1], input[2])
  /\ UNCHANGED requests

ScoreResults == get_results("s1") /\ UNCHANGED requests

ScoreNext == ScoreStart \/ ScoreSubmit \/ ScoreResults

ScoreSpec == Init /\ [][ScoreNext]_vars

(***************************************************************************)
(* The two-client model: the client of s1 always answers the question it   *)
(* was last given and stops when it is given none; the client of s2 sends  *)
(* any of SubmitInputs, repeating and skipping questions.                  *)
(***************************************************************************)
\* the answer the client of s1 gives to every question
ClientAnswer == IntAns(3)

ClientStart ==
  /\ \E session_id \in SessionIds : start_assessment(session_id)
  /\ UNCHANGED requests

\* the question last given to s1 (first_question of start, next_question of
\* the last answer) is get_next_question of the stored session
CompliantSubmit ==
  /\ "s1" \in DOMAIN sessions
  /\ LET given == get_next_question(sessions["s1"])
     IN  /\ given # None
         /\ submit_answer("s1", given.question_id, ClientAnswer)
  /\ UNCHANGED requests

ArbitrarySubmit ==
  /\ \E input \in SubmitInputs : submit_answer("s2", input[1], input[2])
  /\ UNCHANGED requests

ClientNext == ClientStart \/ CompliantSubmit \/ ArbitrarySubmit

ClientSpec == Init /\ [][ClientNext]_vars

(***************************************************************************)
(* The valid-answers model: one client answers questions of all five       *)
(* dimensions, each at most once and in any order, always with one of the  *)
(* question's options, and asks for the results at any time.               *)
(***************************************************************************)
\* (question_id, answer) pairs: for each question the best option and a weak
\* one
ValidInputs ==
  { <<"ENT_001", IntAns(5)>>, <<"ENT_001", IntAns(1)>>,
    <<"COMP_002", StrAns("yes")>>, <<"COMP_002", StrAns("no")>>,
    <<"COMP_003", IntAns(5)>>, <<"COMP_003", IntAns(2)>>,
    <<"MARKET_001", StrAns("yes")>>, <<"MARKET_001", StrAns("partial")>>,
    <<"MARKET_003", IntAns(5)>>, <<"MARKET_003", IntAns(2)>>,
    <<"FIN_002", StrAns("10_30k")>>, <<"FIN_002", StrAns("unclear")>>,
    <<"FIN_003", IntAns(5)>>, <<"FIN_003", IntAns(2)>>,
    <<"IMPL_001", StrAns("ready")>>, <<"IMPL_001", StrAns("idea")>>,
    <<"IMPL_003", IntAns(5)>>, <<"IMPL_003", IntAns(3)>> }

ValidStart == start_assessment("s1") /\ UNCHANGED requests

ValidSubmit ==
  /\ \E input \in ValidInputs :
       /\ "s1" \in DOMAIN sessions
       /\ input[1] \notin DOMAIN sessions["s1"].answers
       /\ submit_answer("s1", input[1], input[2])
  /\ UNCHANGED requests

ValidResults == get_results("s1") /\ UNCHANGED requests

ValidNext == ValidStart \/ ValidSubmit \/ ValidResults

ValidSpec == Init /\ [][ValidNext]_vars

(***************************************************************************)
(* The concurrent model: clients issue /answer requests for s1 without     *)
(* waiting for earlier ones; the event loop runs the handler coroutine of  *)
(* any received request.  submit_answer is an async def whose body has no  *)
(* await, so the coroutine runs from its first statement to its return in  *)
(* one step of the loop.                                                   *)
(***************************************************************************)
\* a request arrives: its coroutine is created and not yet run
IssueSubmit ==
  /\ Len(requests) < MaxRequests
  /\ \E input \in SubmitInputs :
       requests' = Append(requests,
                     [session_id |-> "s1", question_id |-> input[1], answer |-> input[2],
                      pc |-> [at |-> "issued"]])
  /\ UNCHANGED <<sessions, resp, roundTieUp>>

\* the requests whose handler has returned
Done == {r \in DOMAIN requests : requests[r].pc.at = "done"}

\* the handler of request r with a suspension point between reading and
\* writing current_question_index
HandleSubmitSuspended(r) ==
  LET request == requests[r]
      session_id == request.session_id
  IN  IF request.pc.at = "issued"
      THEN IF session_id \notin DOMAIN sessions
           THEN /\ resp' = NotFound("answer", session_id)
                /\ requests' = [requests EXCEPT ![r].pc =
                                  [at |-> "done", status |-> 404, order |-> Cardinality(Done) + 1]]
                /\ UNCHANGED <<sessions, roundTieUp>>
           ELSE /\ sessions' = [sessions EXCEPT ![session_id].answers =
                                  (request.question_id :> [answer |-> request.answer]) @@ @]
                /\ requests' = [requests EXCEPT ![r].pc =
                                  [at |-> "read",
                                   index |-> sessions[session_id].current_question_index]]
                /\ UNCHANGED <<resp, roundTieUp>>
      ELSE /\ request.pc.at = "read"
           /\ LET session_data == [sessions[session_id] EXCEPT
                                     !.current_question_index = request.pc.index + 1]
                  is_complete == session_data.current_question_index >= total_questions
              IN  /\ sessions' = [sessions EXCEPT ![session_id] = session_data]
                  /\ resp' = [op |-> "answer", session_id |-> session_id, status |-> 200,
                              next_question |-> IF is_complete THEN None
                                                ELSE get_next_question(session_data),
                              progress |-> Progress(session_data),
                              is_complete |-> is_complete]
           /\ requests' = [requests EXCEPT ![r].pc =
                             [at |-> "done", status |-> 200, order |-> Cardinality(Done) + 1]]
           /\ UNCHANGED roundTieUp

\* the event loop runs the handler of request r: the whole of submit_answer
HandleSubmit(r) ==
  LET request == requests[r]
  IN  /\ request.pc.at = "issued"
      /\ submit_answer(request.session_id, request.question_id, request.answer)
      /\ requests' = [requests EXCEPT ![r].pc =
                        [at |-> "done", status |-> resp'.status, order |-> Cardinality(Done) + 1]]

ConcStart == start_assessment("s1") /\ UNCHANGED requests

ConcHandle == \E r \in DOMAIN requests : HandleSubmit(r)

ConcNext == ConcStart \/ IssueSubmit \/ ConcHandle

ConcSpec == Init /\ [][ConcNext]_vars

(***************************************************************************)
(* Vocabulary of the properties                                            *)
(***************************************************************************)
\* the last response is a successful one of the given endpoint
RespOk(op) == resp.op = op /\ resp.status = 200

\* this step is a successful submitAnswer on session s
AnswerStep(s) ==
  resp'.op = "answer" /\ resp'.status = 200 /\ resp'.session_id = s

\* this step is a submitAnswer on s whose question_id already had an entry
ResubmitStep(s) ==
  AnswerStep(s) /\ DOMAIN sessions'[s].answers = DOMAIN sessions[s].answers

Pointer(s) == sessions[s].current_question_index

\* the ids of the bank questions
BankIds == {question_bank[k].id : k \in 1..total_questions}

(***************************************************************************)
(* C1                                                                      *)
(***************************************************************************)
\* C1: a submitAnswer whose question_id already has an entry in the session's
\* answer map overwrites that entry and leaves the session's pointer and
\* progress unchanged.
C1_ResubmitKeepsProgress ==
  [][\A s \in DOMAIN sessions :
       ResubmitStep(s) =>
         /\ \E q \in DOMAIN sessions[s].answers :
              sessions'[s].answers = [sessions[s].answers EXCEPT ![q] = sessions'[s].answers[q]]
         /\ sessions'[s].current_question_index = sessions[s].current_question_index
         /\ Progress(sessions'[s]) = Progress(sessions[s])]_vars

(***************************************************************************)
(* C2                                                                      *)
(***************************************************************************)
\* C2: the progress a successful submitAnswer reports is never below the
\* progress of the session before the submission (the value the previous
\* submission reported), and a reported progress is 100 exactly when the
\* session's pointer is 15.
C2_ProgressMonotone ==
  /\ [](RespOk("answer") => (resp.progress = 100 <=> Pointer(resp.session_id) = 15))
  /\ [][\A s \in DOMAIN sessions :
          AnswerStep(s) => resp'.progress >= (Pointer(s) * 100) \div 15]_vars

\* a submission has just reported 100 at pointer 15, and another session has
\* gone past it
C2_Witness ==
  /\ RespOk("answer")
  /\ resp.progress = 100
  /\ Pointer(resp.session_id) = 15
  /\ \E s \in DOMAIN sessions : Pointer(s) > 15

(***************************************************************************)
(* C3                                                                      *)
(***************************************************************************)
\* C3: the progress reported by submitAnswer and by session-info lies in
\* 0..100, also for submissions to an exhausted session.
C3_ProgressInRange ==
  (RespOk("answer") \/ RespOk("session")) => resp.progress \in 0..100

(***************************************************************************)
(* C4                                                                      *)
(***************************************************************************)
\* C4: submitAnswer, getResults and session-info with a session id that is
\* not in the store answer 404 and leave the store as it was.
C4_UnknownSessionNotFound ==
  [][(resp'.op \in {"answer", "results", "session"} /\ resp'.session_id \notin DOMAIN sessions)
       => (resp'.status = 404 /\ sessions' = sessions)]_vars

\* a submitAnswer for an unknown id has just failed while the store holds a
\* session with answers
C4_Witness ==
  /\ resp.op = "answer"
  /\ resp.status = 404
  /\ resp.session_id \notin DOMAIN sessions
  /\ \E s \in DOMAIN sessions : sessions[s].answers # << >>

(***************************************************************************)
(* C5 .. C9: the result of getResults                                      *)
(***************************************************************************)
\* the dimensions with at least one answered bank question in session s
AnsweredDimensions(s) ==
  {question_bank[k].dimension :
     k \in {j \in 1..total_questions : question_bank[j].id \in DOMAIN sessions[s].answers}}

\* raw_score and count of dimension d in session s, as calculate_results
\* accumulates them
RawScores(s, d) == DimensionScores(sessions[s].answers).dimension_scores[d]

\* C5: overall_score lies in [0,100] whenever a dimension has an answered
\* question, and is exactly 0 when none has, for stored answers of any value.
C5_OverallInRange ==
  RespOk("results") =>
    IF AnsweredDimensions(resp.session_id) # {}
    THEN resp.overall_score >= 0 /\ resp.overall_score <= 1000
    ELSE resp.overall_score = 0

\* C6: the result has an entry for a dimension iff a bank question of that
\* dimension is answered; the raw average of such a dimension lies in [0,5]
\* and its score is raw_average * 20 rounded to one decimal (the tenth
\* nearest to the exact product).
C6_DimensionEntries ==
  RespOk("results") =>
    /\ DOMAIN resp.dimensions = AnsweredDimensions(resp.session_id)
    /\ \A d \in DOMAIN resp.dimensions :
         LET raw == RawScores(resp.session_id, d)
             deviation == resp.dimensions[d].score * raw.count - 200 * raw.raw_score
         IN  /\ raw.raw_score >= 0
             /\ raw.raw_score <= 5 * raw.count
             /\ 2 * deviation <= raw.count
             /\ 2 * deviation >= 0 - raw.count

\* C7: recommendations has at most 5 entries and next_steps exactly 5.
C7_ListLengths ==
  RespOk("results") =>
    /\ Len(resp.recommendations) <= 5
    /\ Len(resp.next_steps) = 5

\* the slice acted: the excellent message and four weak-dimension messages
\* fill the list and the closing recommendation is cut off
C7_Witness ==
  /\ RespOk("results")
  /\ resp.overall_score >= 750
  /\ \A d \in {"Finanzplanung", "Marktverständnis", "Fachkompetenz", "Umsetzungsreife"} :
       d \in DOMAIN resp.dimensions /\ resp.dimensions[d].score < 600
  /\ Len(resp.recommendations) = 5
  /\ resp.recommendations[5] # RecGeneral

\* C8: getResults succeeds in every state of an existing session; with no
\* entry for any bank question it returns overall_score 0, the lowest
\* readiness tier and no dimension.
C8_ResultsAlwaysSucceed ==
  (resp.op = "results" /\ resp.session_id \in DOMAIN sessions) =>
    /\ resp.status = 200
    /\ (DOMAIN sessions[resp.session_id].answers \cap BankIds = {} =>
          /\ resp.overall_score = 0
          /\ resp.readiness_level = ReadinessNiedrig
          /\ DOMAIN resp.dimensions = {})

\* C9: with overall_score >= 75 recommendations starts with the excellent
\* message and next_steps is the Hoch list; below 75 the message is absent
\* and next_steps is the Mittel list from 55 on and the fallback list below.
C9_TierSelectsLists ==
  RespOk("results") =>
    IF resp.overall_score >= 750
    THEN /\ resp.recommendations[1] = RecExcellent
         /\ resp.next_steps = StepsHoch
    ELSE /\ \A k \in 1..Len(resp.recommendations) : resp.recommendations[k] # RecExcellent
         /\ resp.next_steps = IF resp.overall_score >= 550 THEN StepsMittel ELSE StepsElse

\* a result in the top tier computed from answers in all five dimensions
C9_Witness ==
  /\ RespOk("results")
  /\ resp.overall_score >= 750
  /\ Cardinality(DOMAIN resp.dimensions) = 5
  /\ resp.recommendations[1] = RecExcellent
  /\ resp.next_steps = StepsHoch

(***************************************************************************)
(* C10                                                                     *)
(***************************************************************************)
\* C10: every successful submitAnswer increases the pointer of its session
\* by exactly 1, whatever the question_id; no step decreases a pointer,
\* returns a session to pointer 0 or removes a session.
C10_PointerAdvances ==
  [][\A s \in DOMAIN sessions :
       /\ s \in DOMAIN sessions'
       /\ sessions'[s].current_question_index >= sessions[s].current_question_index
       /\ (sessions[s].current_question_index > 0 => sessions'[s].current_question_index > 0)
       /\ (AnswerStep(s) =>
             sessions'[s].current_question_index = sessions[s].current_question_index + 1)]_vars

\* a session has advanced on submissions that never named the question at
\* its pointer: only an id outside the bank was ever submitted
C10_Witness ==
  /\ RespOk("answer")
  /\ Pointer(resp.session_id) >= 2
  /\ DOMAIN sessions[resp.session_id].answers = {"XXX_999"}

(***************************************************************************)
(* C11                                                                     *)
(***************************************************************************)
\* C11: start returns bank question 0 with order 1 and total 15; after a
\* successful submitAnswer is_complete is true iff the new pointer is >= 15,
\* next_question is null iff is_complete, and otherwise it is the bank
\* question at index pointer with order pointer + 1; a submission to a session
\* that has already been reported complete reports is_complete again.
C11_BankOrderDelivery ==
  /\ [](RespOk("start") =>
          /\ resp.total_questions = 15
          /\ resp.first_question.question_id = question_bank[1].id
          /\ resp.first_question.order = 1
          /\ resp.first_question.total = 15)
  /\ [](RespOk("answer") =>
          LET pointer == Pointer(resp.session_id)
          IN  /\ resp.is_complete <=> pointer >= 15
              /\ resp.next_question = None <=> resp.is_complete
              /\ ~resp.is_complete =>
                   /\ resp.next_question.question_id = question_bank[pointer + 1].id
                   /\ resp.next_question.order = pointer + 1
                   /\ resp.next_question.total = 15)
  /\ [][\A s \in DOMAIN sessions :
          (AnswerStep(s) /\ Pointer(s) >= 15) => resp'.is_complete]_vars

\* the last bank question has just been handed out to one session while
\* another session, already complete, has been submitted to again
C11_Witness ==
  /\ RespOk("answer")
  /\ ~resp.is_complete
  /\ resp.next_question.order = 15
  /\ \E s \in DOMAIN sessions : Pointer(s) > 15

(***************************************************************************)
(* C12                                                                     *)
(***************************************************************************)
\* C12: start and submitAnswer on one session leave every other session as
\* it was; getResults and session-info leave every session as it was.
C12_OnlyTargetSessionChanges ==
  [][/\ resp'.op \in {"results", "session"} => sessions' = sessions
     /\ resp'.op \in {"start", "answer"} =>
          \A s \in DOMAIN sessions :
            s # resp'.session_id => (s \in DOMAIN sessions' /\ sessions'[s] = sessions[s])]_vars

\* a session has just been started while another session holds answers
C12_Witness ==
  /\ RespOk("start")
  /\ \E s \in DOMAIN sessions :
       s # resp.session_id /\ Pointer(s) > 1 /\ sessions[s].answers # << >>

(***************************************************************************)
(* C14                                                                     *)
(***************************************************************************)
\* the entries of session s for bank questions, without their question ids
\* outside the bank
BankAnswers(s) ==
  [q \in DOMAIN sessions[s].answers \cap BankIds |-> sessions[s].answers[q].answer]

\* C14: the result getResults has just returned for a session is the result
\* of every session whose answer map holds the same entries for the bank
\* questions, whatever its pointer, its submission history and its entries
\* for ids outside the bank.
C14_ResultsDependOnBankAnswers ==
  (resp.op = "results" /\ resp.session_id \in DOMAIN sessions) =>
    \A s \in DOMAIN sessions :
      BankAnswers(s) = BankAnswers(resp.session_id) =>
        LET other == calculate_results(sessions[s], roundTieUp)
        IN  IF resp.status = 200
            THEN /\ other.ok
                 /\ other.overall_score = resp.overall_score
                 /\ other.readiness_level = resp.readiness_level
                 /\ other.dimensions = resp.dimensions
                 /\ other.recommendations = resp.recommendations
                 /\ other.next_steps = resp.next_steps
            ELSE ~other.ok

\* a result was returned for a complete session while another session, still
\* incomplete, holds the same bank answer and, unlike the first, an entry
\* for an id outside the bank
C14_Witness ==
  /\ RespOk("results")
  /\ Pointer(resp.session_id) >= 15
  /\ DOMAIN sessions[resp.session_id].answers = {"ENT_001"}
  /\ \E s \in DOMAIN sessions :
       /\ s # resp.session_id
       /\ Pointer(s) < 15
       /\ DOMAIN sessions[s].answers = {"ENT_001", "XXX_999"}
       /\ BankAnswers(s) = BankAnswers(resp.session_id)

(***************************************************************************)
(* C13                                                                     *)
(***************************************************************************)
\* the requests for session s that were answered 200
Succeeded(s) ==
  {r \in Done : requests[r].session_id = s /\ requests[r].pc.status = 200}

\* C13: no request is ever seen inside its handler; after k successful
\* submitAnswer requests that were in flight together, the pointer of their
\* session has grown by exactly k, and the answer of each is in the answer
\* map unless a request handled later wrote the same question_id.
C13_NoLostUpdate ==
  /\ \A r \in DOMAIN requests : requests[r].pc.at \in {"issued", "done"}
  /\ \A s \in DOMAIN sessions :
       /\ Pointer(s) = Cardinality(Succeeded(s))
       /\ \A r \in Succeeded(s) :
            (\A later \in Succeeded(s) :
               requests[later].question_id = requests[r].question_id
                 => requests[later].pc.order <= requests[r].pc.order)
            => /\ requests[r].question_id \in DOMAIN sessions[s].answers
               /\ sessions[s].answers[requests[r].question_id].answer = requests[r].answer

\* three requests were in flight together and were handled in an order other
\* than that of their arrival, two of them writing the same question_id with
\* different answers
C13_Witness ==
  /\ Cardinality(Succeeded("s1")) = 3
  /\ requests[1].pc.order = 3
  /\ requests[3].pc.order = 1
  /\ requests[1].question_id = requests[3].question_id
  /\ requests[1].answer # requests[3].answer

(***************************************************************************)
(* C15                                                                     *)
(***************************************************************************)
\* C15: a session never has more answer-map entries than its pointer; the
\* two are equal after start, and after a submission exactly when they were
\* equal before it and its question_id had no entry yet; when the client
\* that always submits the question it was last given is told is_complete,
\* all 15 bank questions have an entry.
C15_EntriesAndPointer ==
  /\ [](\A s \in DOMAIN sessions :
          Cardinality(DOMAIN sessions[s].answers) <= Pointer(s))
  /\ [](RespOk("start") =>
          /\ Pointer(resp.session_id) = 0
          /\ Cardinality(DOMAIN sessions[resp.session_id].answers) = 0)
  /\ [](RespOk("answer") /\ resp.session_id = "s1" /\ resp.is_complete =>
          /\ BankIds \subseteq DOMAIN sessions["s1"].answers
          /\ Cardinality(DOMAIN sessions["s1"].answers) = 15)
  /\ [][\A s \in DOMAIN sessions :
          AnswerStep(s) =>
            ((Cardinality(DOMAIN sessions'[s].answers) = sessions'[s].current_question_index)
               <=> /\ Cardinality(DOMAIN sessions[s].answers) = Pointer(s)
                   /\ ~ResubmitStep(s))]_vars

\* the compliant client has just been told is_complete with all 15 entries
\* stored, while the other session has fewer entries than its pointer
C15_Witness ==
  /\ RespOk("answer")
  /\ resp.session_id = "s1"
  /\ resp.is_complete
  /\ Cardinality(DOMAIN sessions["s1"].answers) = 15
  /\ "s2" \in DOMAIN sessions
  /\ Cardinality(DOMAIN sessions["s2"].answers) = 2
  /\ Pointer("s2") > 2

(***************************************************************************)
(* C16                                                                     *)
(***************************************************************************)
\* the four dimensions _generate_recommendations has a message for
RecommendedDimensions ==
  {"Finanzplanung", "Marktverständnis", "Fachkompetenz", "Umsetzungsreife"}

\* the dimensions of the last result that score below 60
WeakInResult ==
  {d \in RecommendedDimensions \cap DOMAIN resp.dimensions : resp.dimensions[d].score < 600}

\* C16: when every stored answer is one of its question's options, a result
\* with overall_score >= 75 never has all four of Finanzplanung,
\* Marktverständnis, Fachkompetenz and Umsetzungsreife below 60, so at most
\* five recommendations are built and the closing one is the last returned.
C16_ClosingRecommendationKept ==
  RespOk("results") =>
    /\ ~(resp.overall_score >= 750 /\ WeakInResult = RecommendedDimensions)
    /\ (IF resp.overall_score >= 750 THEN 1 ELSE 0) + Cardinality(WeakInResult) + 1 <= 5
    /\ resp.recommendations[Len(resp.recommendations)] = RecGeneral

\* all four dimensions are weak beside a perfect first dimension: five
\* recommendations, the closing one last
C16_Witness ==
  /\ RespOk("results")
  /\ WeakInResult = RecommendedDimensions
  /\ "Unternehmerische Persönlichkeit" \in DOMAIN resp.dimensions
  /\ resp.dimensions["Unternehmerische Persönlichkeit"].score = 1000
  /\ Len(resp.recommendations) = 5
  /\ resp.recommendations[5] = RecGeneral
====
